---- MODULE Spec2Model ----
(***************************************************************************)
(* Model of the /api/stats/<channel_id> handler of the light-status        *)
(* dashboard (src/app.py): the timeline builder and the per-day            *)
(* uptime/downtime aggregation over the history table of one channel.      *)
(*                                                                         *)
(* Time.  Instants are integers counted in ticks of 1/TicksPerMs           *)
(* millisecond from a fixed origin, the UTC midnight that opens model day  *)
(* 0, so that sub-second (real-valued) timestamps exist.  A local calendar *)
(* date 'YYYY-MM-DD' is the number of whole local days since the origin.   *)
(***************************************************************************)
EXTENDS Integers, Sequences, FiniteSets, TLC

\* ------------------------------------------------------------------ bounds
TicksPerMs == 2         \* resolution of a timestamp: ticks per millisecond
MaxDay == 3             \* local dates 1..MaxDay exist; the request runs on MaxDay
MaxLogLen == 2          \* rows of the history table before the request
MaxWindowDays == 2      \* the ?days= parameter ranges over 1..MaxWindowDays
MaxIngest == 1          \* rows the ingestion process appends during a request

\* ------------------------------------------------------------ time units
Ms == TicksPerMs
Sec == 1000 * Ms
Hour == 3600 * Sec
DayLen == 86400 * Sec                          \* timedelta(days=1)
EndOfDayOffset == (23 * 3600 + 59 * 60 + 59) * Sec   \* replace(hour=23, minute=59, second=59)

None == -1              \* Python None for an optional status / missing row

\* -------------------------------------------------------------- timezones
\* A zone has one UTC offset before its transition instant and one from it
\* on.  "UTC" has no transition; "Fall" puts its clock back one hour on local
\* date 2 (a 25 hour day); "Spring" puts it forward (a 23 hour day).
ZoneNames == {"UTC", "Fall", "Spring"}

ZoneInfo(name) ==
  CASE name = "UTC"    -> [before |-> 0,        after |-> 0,        transition |-> 0]
    [] name = "Fall"   -> [before |-> 3 * Hour, after |-> 2 * Hour, transition |-> 2 * DayLen + Hour]
    [] name = "Spring" -> [before |-> 2 * Hour, after |-> 3 * Hour, transition |-> 2 * DayLen + Hour]

\* tz.utcoffset at the instant ts (pytz fromutc)
UtcOffset(tz, ts) ==
  LET z == ZoneInfo(tz) IN IF ts < z.transition THEN z.before ELSE z.after

\* datetime.fromtimestamp(ts, tz).strftime('%Y-%m-%d'): the local date of ts
LocalDate(tz, ts) == (ts + UtcOffset(tz, ts)) \div DayLen

\* tz.localize(naive).timestamp(): the instant of a naive local time.  An
\* ambiguous or non-existent local time resolves to the standard (smaller)
\* offset, as pytz does for is_dst=False.
Localize(tz, naive) ==
  LET z == ZoneInfo(tz)
      t0 == naive - z.before
      t1 == naive - z.after
      ok0 == t0 < z.transition
      ok1 == t1 >= z.transition
      std == IF z.before <= z.after THEN t0 ELSE t1
  IN  IF ok0 /\ ~ok1 THEN t0
      ELSE IF ok1 /\ ~ok0 THEN t1
      ELSE std

\* tz.localize(strptime(day)).replace(hour=0, ...).timestamp()
DayStart(tz, day) == Localize(tz, day * DayLen)

\* day_date.replace(hour=23, minute=59, second=59).timestamp(): replace()
\* keeps the tzinfo that localize() attached to midnight, so the offset is
\* the one in force at midnight whatever happens to the zone during the day.
EndOfDay(tz, day) == DayStart(tz, day) + EndOfDayOffset

\* int(ts * 1000): milliseconds, truncated
ToMillis(ts) == ts \div Ms

\* ------------------------------------------------------------ SQL helpers
RECURSIVE InsertByTimestamp(_, _)
InsertByTimestamp(row, sorted) ==
  IF sorted = <<>> THEN <<row>>
  ELSE IF row.timestamp < Head(sorted).timestamp THEN <<row>> \o sorted
  ELSE <<Head(sorted)>> \o InsertByTimestamp(row, Tail(sorted))

\* ORDER BY timestamp (rows of equal timestamp stay in insertion order)
RECURSIVE OrderByTimestamp(_)
OrderByTimestamp(rows) ==
  IF rows = <<>> THEN <<>>
  ELSE InsertByTimestamp(rows[Len(rows)], OrderByTimestamp(SubSeq(rows, 1, Len(rows) - 1)))

\* SELECT timestamp, status FROM history WHERE timestamp >= ? ORDER BY timestamp
SelectSince(rows, since) ==
  OrderByTimestamp(SelectSeq(rows, LAMBDA r : r.timestamp >= since))

\* SELECT status FROM history WHERE timestamp < ? ORDER BY timestamp DESC LIMIT 1
SelectLastBefore(rows, before) ==
  LET older == OrderByTimestamp(SelectSeq(rows, LAMBDA r : r.timestamp < before))
  IN  IF older = <<>> THEN None ELSE older[Len(older)].status

\* ------------------------------------------------- the handler's functions
\* the start point without the test that the window has an event
StartPointUnguarded(history, status_at_start, start_time) ==
  IF status_at_start # None
  THEN <<[time |-> ToMillis(start_time), status |-> status_at_start]>>
  ELSE <<>>

\* lines 170-191: the timeline sent to the chart
StartPoint(history, status_at_start, start_time) ==
  IF status_at_start # None /\ history # <<>>
  THEN <<[time |-> ToMillis(start_time), status |-> status_at_start]>>
  ELSE <<>>

EventPoints(history) ==
  [i \in 1..Len(history) |-> [time |-> ToMillis(history[i].timestamp), status |-> history[i].status]]

NowPoint(sofar, current_channel, now) ==
  IF current_channel # None /\ sofar # <<>>
  THEN <<[time |-> ToMillis(now), status |-> current_channel]>>
  ELSE <<>>

BuildTimeline(history, status_at_start, start_time, current_channel, now) ==
  LET sofar == StartPoint(history, status_at_start, start_time) \o EventPoints(history)
  IN  sofar \o NowPoint(sofar, current_channel, now)

\* lines 196-204: the local dates of the window's events, and today
DaysInRange(tz, history, now) ==
  {LocalDate(tz, history[i].timestamp) : i \in 1..Len(history)} \cup {LocalDate(tz, now)}

\* lines 207-213: the keys of daily_stats in insertion order ...
RECURSIVE CollectKeys(_, _, _)
CollectKeys(tz, all_history, in_range) ==
  IF all_history = <<>> THEN <<>>
  ELSE LET front == CollectKeys(tz, SubSeq(all_history, 1, Len(all_history) - 1), in_range)
           day == LocalDate(tz, all_history[Len(all_history)].timestamp)
       IN  IF day \in in_range /\ \A i \in 1..Len(front) : front[i] # day
           THEN Append(front, day) ELSE front

\* ... and the 'events' list of one key
CollectEvents(tz, all_history, day) ==
  LET mine == SelectSeq(all_history, LAMBDA h : LocalDate(tz, h.timestamp) = day)
  IN  [i \in 1..Len(mine) |-> [time |-> mine[i].timestamp, status |-> mine[i].status]]

\* lines 222-226: for h in reversed(all_history): if h['timestamp'] < day_start
RECURSIVE LastStatusBefore(_, _)
LastStatusBefore(all_history, day_start) ==
  IF all_history = <<>> THEN None
  ELSE IF all_history[Len(all_history)].timestamp < day_start
       THEN all_history[Len(all_history)].status
       ELSE LastStatusBefore(SubSeq(all_history, 1, Len(all_history) - 1), day_start)

\* lines 228-235: the status charged from midnight to the day's first event
StatusAtDayStart(all_history, day_start, events, current_channel) ==
  LET prior == LastStatusBefore(all_history, day_start)
  IN  IF prior # None THEN prior
      ELSE IF events # <<>> THEN events[1].status
      ELSE IF current_channel # None THEN current_channel ELSE 0

\* line 239: sorted(data['events'], key=lambda x: x['time']), a stable sort
RECURSIVE InsertByTime(_, _)
InsertByTime(e, sorted) ==
  IF sorted = <<>> THEN <<e>>
  ELSE IF e.time < Head(sorted).time THEN <<e>> \o sorted
  ELSE <<Head(sorted)>> \o InsertByTime(e, Tail(sorted))

RECURSIVE SortedByTime(_)
SortedByTime(events) ==
  IF events = <<>> THEN <<>>
  ELSE InsertByTime(events[Len(events)], SortedByTime(SubSeq(events, 1, Len(events) - 1)))

\* the walk of today stops at the end of the day like any other
EndTimeNeverNow(tz, day, now) == EndOfDay(tz, day)

\* lines 262-268: where the walk of a day stops
EndTime(tz, day, now) ==
  IF day = LocalDate(tz, now) THEN now ELSE EndOfDay(tz, day)

\* ------------------------------------------------------------------ state
VARIABLES
  channels,        \* table channels: channel_id -> [owner_id, timezone, is_power_on]
  log,             \* table history of the channel, in insertion order
  clock,           \* the wall clock
  ingest_left,     \* rows the ingestion process may still append
  pc,              \* position of the request in api_stats
  req,             \* the request: session user, <channel_id> of the URL
  channel_id,      \* int(channel_id)
  days,            \* request.args.get('days', 7, type=int)
  tz, now, start_time,
  history, status_at_start, current_channel, all_history,
  timeline, days_in_range,
  daily_keys,      \* keys of daily_stats in insertion order
  daily_stats,     \* day -> {'events', 'status_at_start'} or {'uptime', 'downtime'}
  di,              \* position of "for day, data in daily_stats.items()"
  events, ei,      \* sorted events of the day and position of "for event in events"
  uptime, downtime, prev_status, prev_time,
  resp             \* the response: HTTP status and error text

tables == <<channels, log, clock, ingest_left>>
reads == <<tz, now, start_time, history, status_at_start, current_channel, all_history>>
derived == <<timeline, days_in_range, daily_keys, daily_stats>>
cursor == <<di, events, ei, uptime, downtime, prev_status, prev_time>>
vars == <<channels, log, clock, ingest_left, pc, req, channel_id, days, tz, now, start_time,
          history, status_at_start, current_channel, all_history, timeline, days_in_range,
          daily_keys, daily_stats, di, events, ei, uptime, downtime, prev_status, prev_time, resp>>

\* ------------------------------------------------------------ initial state
Today == MaxDay
ClockAtStart(zone) == DayStart(zone, Today) + 16 * Hour

\* times of day at which a row of the history table may have been written:
\* midnight, 00:30, 14:00, half a millisecond past 23:59:59, 00:30 a day later
Deltas == {0, Hour \div 2, 14 * Hour, EndOfDayOffset + 1, DayLen + Hour \div 2}

Instants(zone) ==
  {t \in {DayStart(zone, d) + delta : d \in 1..MaxDay, delta \in Deltas} : t <= ClockAtStart(zone)}

Rows(zone) == [timestamp : Instants(zone), status : {0, 1}]

\* the table is append-only and a row carries the time it was written
Logs(zone, maxlen) ==
  {l \in UNION {[1..n -> Rows(zone)] : n \in 0..maxlen} :
     \A i \in 1..(Len(l) - 1) : l[i].timestamp <= l[i + 1].timestamp}

InitWith(zones, ingest) ==
  /\ \E zone \in zones, on \in {0, 1} :
       /\ channels = [c \in {1} |->
                        [owner_id |-> 100, timezone |-> zone, is_power_on |-> on]]
       /\ log \in Logs(zone, MaxLogLen)
       /\ clock = ClockAtStart(zone)
  /\ ingest_left = ingest
  /\ pc = "request"
  /\ req = [user_id |-> None, channel_id |-> ""]
  /\ channel_id = None
  /\ days = 0
  /\ tz = "" /\ now = 0 /\ start_time = 0
  /\ history = <<>> /\ status_at_start = None /\ current_channel = None /\ all_history = <<>>
  /\ timeline = <<>> /\ days_in_range = {}
  /\ daily_keys = <<>> /\ daily_stats = <<>>
  /\ di = 0 /\ events = <<>> /\ ei = 0
  /\ uptime = 0 /\ downtime = 0 /\ prev_status = 0 /\ prev_time = 0
  /\ resp = [status |-> 0, error |-> ""]

Init == InitWith(ZoneNames, 0)
InitConc == InitWith(ZoneNames, MaxIngest)
InitFair == InitWith({"Fall"}, 0)

\* ---------------------------------------------------------------- requests
\* session.get('telegram_user_id'): nobody, the owner of channel 1, somebody else
SessionUsers == {None, 100, 200}
ChannelIdTexts == {"1", "2", "abc"}

\* int(channel_id): the value, or None where Python raises ValueError
ParseInt(text) ==
  CASE text = "1" -> 1
    [] text = "2" -> 2
    [] OTHER -> None

\* lines 51-59
check_channel_access(user_id, cid) ==
  cid \in DOMAIN channels /\ channels[cid].owner_id = user_id

Reply(status, error) ==
  /\ resp' = [status |-> status, error |-> error]
  /\ pc' = "done"

\* lines 115-129: authentication, the id, the access check, the window
Request ==
  /\ pc = "request"
  /\ \E user \in SessionUsers, text \in ChannelIdTexts, d \in 1..MaxWindowDays :
       /\ req' = [user_id |-> user, channel_id |-> text]
       /\ IF user = None
          THEN Reply(401, "Unauthorized") /\ UNCHANGED <<channel_id, days>>
          ELSE IF ParseInt(text) = None
          THEN Reply(400, "Invalid channel ID") /\ UNCHANGED <<channel_id, days>>
          ELSE IF ~check_channel_access(user, ParseInt(text))
          THEN Reply(403, "Access denied") /\ channel_id' = ParseInt(text) /\ UNCHANGED days
          ELSE /\ channel_id' = ParseInt(text)
               /\ days' = d
               /\ pc' = "get_channel"
               /\ UNCHANGED resp
  /\ UNCHANGED <<tables, reads, derived, cursor>>

\* lines 131-145: the channel row, its timezone, now and the window's start
GetChannel ==
  /\ pc = "get_channel"
  /\ IF channel_id \notin DOMAIN channels
     THEN Reply(404, "Channel not found") /\ UNCHANGED <<tz, now, start_time>>
     ELSE /\ tz' = channels[channel_id].timezone
          /\ now' = clock
          /\ start_time' = clock - days * DayLen
          /\ pc' = "read_history"
          /\ UNCHANGED resp
  /\ UNCHANGED <<tables, req, channel_id, days, history, status_at_start, current_channel,
                 all_history, derived, cursor>>

\* lines 146-149
ReadHistory ==
  /\ pc = "read_history"
  /\ history' = SelectSince(log, start_time)
  /\ pc' = "read_status_at_start"
  /\ UNCHANGED <<tables, req, channel_id, days, tz, now, start_time, status_at_start,
                 current_channel, all_history, derived, cursor, resp>>

\* lines 152-155
ReadStatusAtStart ==
  /\ pc = "read_status_at_start"
  /\ status_at_start' = SelectLastBefore(log, start_time)
  /\ pc' = "read_current_channel"
  /\ UNCHANGED <<tables, req, channel_id, days, tz, now, start_time, history,
                 current_channel, all_history, derived, cursor, resp>>

\* lines 158-160
ReadCurrentChannel ==
  /\ pc = "read_current_channel"
  /\ current_channel' = IF channel_id \in DOMAIN channels
                        THEN channels[channel_id].is_power_on ELSE None
  /\ pc' = "read_all_history"
  /\ UNCHANGED <<tables, req, channel_id, days, tz, now, start_time, history,
                 status_at_start, all_history, derived, cursor, resp>>

\* lines 163-168
ReadAllHistory ==
  /\ pc = "read_all_history"
  /\ all_history' = OrderByTimestamp(log)
  /\ pc' = "timeline"
  /\ UNCHANGED <<tables, req, channel_id, days, tz, now, start_time, history,
                 status_at_start, current_channel, derived, cursor, resp>>

\* lines 170-191
Timeline ==
  /\ pc = "timeline"
  /\ timeline' = BuildTimeline(history, status_at_start, start_time, current_channel, now)
  /\ pc' = "collect"
  /\ UNCHANGED <<tables, req, channel_id, days, reads, days_in_range, daily_keys,
                 daily_stats, cursor, resp>>

\* lines 196-213: the days of the window, and every event of those days
Collect ==
  /\ pc = "collect"
  /\ LET in_range == DaysInRange(tz, history, now)
         keys == CollectKeys(tz, all_history, in_range)
     IN  /\ days_in_range' = in_range
         /\ daily_keys' = keys
         /\ daily_stats' = [day \in {keys[i] : i \in 1..Len(keys)} |->
                              [events |-> CollectEvents(tz, all_history, day)]]
  /\ pc' = "status_at_day_start"
  /\ UNCHANGED <<tables, req, channel_id, days, reads, timeline, cursor, resp>>

\* lines 216-235
StatusAtStarts ==
  /\ pc = "status_at_day_start"
  /\ daily_stats' = [day \in DOMAIN daily_stats |->
                       [events |-> daily_stats[day].events,
                        status_at_start |->
                          StatusAtDayStart(all_history, DayStart(tz, day),
                                           daily_stats[day].events, current_channel)]]
  /\ di' = 1
  /\ pc' = "walk"
  /\ UNCHANGED <<tables, req, channel_id, days, reads, timeline, days_in_range, daily_keys,
                 events, ei, uptime, downtime, prev_status, prev_time, resp>>

\* lines 238-249: enter the next day of daily_stats.items()
BeginDay ==
  /\ pc = "walk"
  /\ di <= Len(daily_keys)
  /\ LET day == daily_keys[di] IN
       /\ events' = SortedByTime(daily_stats[day].events)
       /\ uptime' = 0
       /\ downtime' = 0
       /\ prev_status' = daily_stats[day].status_at_start
       /\ prev_time' = DayStart(tz, day)
  /\ ei' = 1
  /\ pc' = "walk_events"
  /\ UNCHANGED <<tables, req, channel_id, days, reads, derived, di, resp>>

\* the turn with the cursor moved to the event before the elapsed time is taken
WalkEventCursorFirst ==
  /\ pc = "walk_events"
  /\ ei <= Len(events)
  /\ prev_status' = events[ei].status
  /\ prev_time' = events[ei].time
  /\ ei' = ei + 1
  /\ UNCHANGED <<tables, pc, req, channel_id, days, reads, derived, di, events, uptime,
                 downtime, resp>>

\* lines 251-259: one turn of "for event in events"
WalkEvent ==
  /\ pc = "walk_events"
  /\ ei <= Len(events)
  /\ LET event == events[ei]
         duration == event.time - prev_time
     IN  /\ IF prev_status = 1
            THEN uptime' = uptime + duration /\ UNCHANGED downtime
            ELSE downtime' = downtime + duration /\ UNCHANGED uptime
         /\ prev_status' = event.status
         /\ prev_time' = event.time
  /\ ei' = ei + 1
  /\ UNCHANGED <<tables, pc, req, channel_id, days, reads, derived, di, events, resp>>

\* lines 261-280: the span to the end of the day, and the day's result
CloseDay ==
  /\ pc = "walk_events"
  /\ ei > Len(events)
  /\ LET day == daily_keys[di]
         ongoing_duration == EndTime(tz, day, now) - prev_time
         up == IF prev_status = 1 THEN uptime + ongoing_duration ELSE uptime
         down == IF prev_status = 1 THEN downtime ELSE downtime + ongoing_duration
     IN  /\ uptime' = up
         /\ downtime' = down
         /\ daily_stats' = [daily_stats EXCEPT ![day] = [uptime |-> up, downtime |-> down]]
  /\ di' = di + 1
  /\ pc' = "walk"
  /\ UNCHANGED <<tables, req, channel_id, days, reads, timeline, days_in_range, daily_keys,
                 events, ei, prev_status, prev_time, resp>>

\* lines 282-285
Respond ==
  /\ pc = "walk"
  /\ di > Len(daily_keys)
  /\ Reply(200, "")
  /\ UNCHANGED <<tables, req, channel_id, days, reads, derived, cursor>>

\* ------------------------------------------------------------ environment
\* The ingestion process (another program) appends a status change, stamped
\* with the time it is written, while the request holds its connection.
IngestDelays == {0, Sec}
ConnectionOpen ==
  {"get_channel", "read_history", "read_status_at_start", "read_current_channel",
   "read_all_history"}

Ingest ==
  /\ ingest_left > 0
  /\ pc \in ConnectionOpen
  /\ \E delay \in IngestDelays, s \in {0, 1} :
       /\ clock' = clock + delay
       /\ log' = Append(log, [timestamp |-> clock + delay, status |-> s])
       /\ channels' = [c \in DOMAIN channels |-> [channels[c] EXCEPT !.is_power_on = s]]
  /\ ingest_left' = ingest_left - 1
  /\ UNCHANGED <<pc, req, channel_id, days, reads, derived, cursor, resp>>

\* ----------------------------------------------------------- specifications
Next ==
  \/ Request \/ GetChannel
  \/ ReadHistory \/ ReadStatusAtStart \/ ReadCurrentChannel \/ ReadAllHistory
  \/ Timeline \/ Collect \/ StatusAtStarts
  \/ BeginDay \/ WalkEvent \/ CloseDay \/ Respond

NextConc == Next \/ Ingest

\* one request, served from an unchanging table
Spec == Init /\ [][Next]_vars

\* the handler is sequential code that runs to its return
FairSpec == InitFair /\ [][Next]_vars /\ WF_vars(Next)

\* one request, with the ingestion process writing meanwhile
SpecConc == InitConc /\ [][NextConc]_vars

\* ================================================================ properties
\* What the properties speak of, written from the tables and not from the
\* handler's intermediate values.
Done200 == pc = "done" /\ resp.status = 200
Emitted == DOMAIN daily_stats
LiveStatus == channels[1].is_power_on
TodayOf == (now + (IF now < ZoneInfo(tz).transition
                   THEN ZoneInfo(tz).before ELSE ZoneInfo(tz).after)) \div DayLen
Abs(x) == IF x < 0 THEN -x ELSE x

RECURSIVE SumOver(_, _)
SumOver(f, set) ==
  IF set = {} THEN 0
  ELSE LET x == CHOOSE y \in set : TRUE IN f[x] + SumOver(f, set \ {x})

Minimum(set) == CHOOSE x \in set : \A y \in set : x <= y

\* rows of the table on a local date, oldest first, in log order when equal
RowsOn(day) == SelectSeq(log, LAMBDA r : LocalDate(tz, r.timestamp) = day)
RowsBefore(t) == SelectSeq(log, LAMBDA r : r.timestamp < t)
RowsSince(t) == SelectSeq(log, LAMBDA r : r.timestamp >= t)

\* ---------------------------------------------------------------------- C1
\* C1 (conservation): in a successful response every emitted day has
\* uptime + downtime = now - local_midnight(day) exactly when the day is the
\* local date of now, and 86400 s within one second for any other day.
C1_Conservation ==
  Done200 =>
    \A day \in Emitted :
      LET total == daily_stats[day].uptime + daily_stats[day].downtime IN
        IF day = TodayOf
        THEN total = now - DayStart(tz, day)
        ELSE Abs(total - DayLen) <= Sec

\* a response with a past day of a zone that changes its clock, and today
C1_Witness ==
  /\ Done200
  /\ tz # "UTC"
  /\ TodayOf \in Emitted
  /\ \E day \in Emitted : day # TodayOf /\ DayStart(tz, day + 1) - DayStart(tz, day) # DayLen

\* ---------------------------------------------------------------------- C2
\* C2 (no double counting), as claimed: the sum of uptime + downtime over the
\* emitted days equals now - local_midnight(earliest emitted day), within one
\* second per emitted past day.
C2_NoDoubleCounting ==
  (Done200 /\ Emitted # {}) =>
    LET total == SumOver([d \in Emitted |-> daily_stats[d].uptime + daily_stats[d].downtime],
                         Emitted)
        past == Cardinality(Emitted \ {TodayOf})
    IN  Abs(total - (now - DayStart(tz, Minimum(Emitted)))) <= past * Sec

\* ---------------------------------------------------------------------- C3
\* C3 (keys of daily), as claimed: the emitted days are the local dates of the
\* events at or after window_start together with the local date of now.
C3_DailyKeys ==
  Done200 =>
    Emitted = {LocalDate(tz, log[i].timestamp) :
                 i \in {j \in 1..Len(log) : log[j].timestamp >= start_time}} \cup {TodayOf}

\* ---------------------------------------------------------------------- C4
\* C4 (status at midnight), as claimed: every day of days_in_range gets the
\* status of the latest event strictly before its local midnight, else the
\* status of its first event, else the live status.
MidnightRule(day) ==
  LET prior == RowsBefore(DayStart(tz, day))
      mine == RowsOn(day)
  IN  IF prior # <<>> THEN prior[Len(prior)].status
      ELSE IF mine # <<>> THEN mine[1].status
      ELSE LiveStatus

C4_StatusAtMidnight ==
  (pc = "walk" /\ di = 1) =>
    \A day \in days_in_range :
      /\ day \in DOMAIN daily_stats
      /\ daily_stats[day].status_at_start = MidnightRule(day)

\* ---------------------------------------------------------------------- C5
\* C5 (attribution), as claimed: uptime is the total length of the parts of
\* [local_midnight(day), end_time] during which the prevailing status is ON
\* and downtime of those during which it is OFF; and the scenario of two
\* events at 00:30 (ON) and 14:00 (OFF) with now = 16:00 gives 50400 s / 7200 s.
Overlap(from, to, lo, hi) ==
  LET a == IF from > lo THEN from ELSE lo
      b == IF to < hi THEN to ELSE hi
  IN  IF b > a THEN b - a ELSE 0

\* length within [lo, hi] during which the status is s: the status at midnight
\* prevails up to the first row, each row's status up to the next row
PrevailingLength(rows, at_midnight, lo, hi, s) ==
  LET n == Len(rows)
      first == IF n = 0 THEN hi ELSE rows[1].timestamp
      head == IF at_midnight = s THEN Overlap(lo, first, lo, hi) ELSE 0
      seg == [i \in 1..n |->
                IF rows[i].status = s
                THEN IF i < n THEN Overlap(rows[i].timestamp, rows[i + 1].timestamp, lo, hi)
                     ELSE Overlap(rows[i].timestamp, hi, lo, hi)
                ELSE 0]
  IN  head + SumOver(seg, 1..n)

C5_Attribution ==
  Done200 =>
    /\ \A day \in Emitted :
         LET lo == DayStart(tz, day)
             hi == IF day = TodayOf THEN now ELSE lo + EndOfDayOffset
         IN  /\ daily_stats[day].uptime
                  = PrevailingLength(RowsOn(day), MidnightRule(day), lo, hi, 1)
             /\ daily_stats[day].downtime
                  = PrevailingLength(RowsOn(day), MidnightRule(day), lo, hi, 0)
    /\ ( /\ tz = "UTC"
         /\ log = <<[timestamp |-> TodayOf * DayLen + Hour \div 2, status |-> 1],
                    [timestamp |-> TodayOf * DayLen + 14 * Hour, status |-> 0]>>
         /\ now = TodayOf * DayLen + 16 * Hour
         /\ LiveStatus = 0 )
       => daily_stats[TodayOf] = [uptime |-> 50400 * Sec, downtime |-> 7200 * Sec]

\* ---------------------------------------------------------------------- C6
\* C6 (timeline construction): the timeline is [start point] ++ the events at
\* or after window_start, in log order and with their status ++ [now point];
\* the start point {window_start, status of the last event before it} is there
\* iff an earlier event exists and the window has an event; the now point
\* {now, live status} is there iff the timeline so far is not empty; and the
\* scenario start 12:00 (ON before), (13:00, OFF), now 14:00 (OFF) gives
\* [(12:00, 1), (13:00, 0), (14:00, 0)].
ExpectedTimeline ==
  LET window == RowsSince(start_time)
      prior == RowsBefore(start_time)
      points == [i \in 1..Len(window) |->
                   [time |-> window[i].timestamp \div TicksPerMs, status |-> window[i].status]]
      start == IF prior # <<>> /\ window # <<>>
               THEN <<[time |-> start_time \div TicksPerMs, status |-> prior[Len(prior)].status]>>
               ELSE <<>>
      end == IF start \o points # <<>>
             THEN <<[time |-> now \div TicksPerMs, status |-> LiveStatus]>>
             ELSE <<>>
  IN  start \o points \o end

C6_Timeline ==
  /\ Done200 => timeline = ExpectedTimeline
  /\ BuildTimeline(<<[timestamp |-> 13 * Hour, status |-> 0]>>, 1, 12 * Hour, 0, 14 * Hour)
       = <<[time |-> 12 * 3600 * 1000, status |-> 1],
           [time |-> 13 * 3600 * 1000, status |-> 0],
           [time |-> 14 * 3600 * 1000, status |-> 0]>>

\* a response whose timeline has the start point, an event and the now point
C6_Witness ==
  /\ Done200
  /\ RowsBefore(start_time) # <<>>
  /\ RowsSince(start_time) # <<>>
  /\ Len(timeline) = Len(RowsSince(start_time)) + 2
  /\ timeline[1].time = start_time \div TicksPerMs

\* ---------------------------------------------------------------------- C7
\* C7 (monotonic timeline), as claimed: the time values of the timeline never
\* decrease along the sequence, whatever the ingestion process appends
\* between the capture of now and the reads.
C7_Monotonic ==
  Done200 =>
    \A i \in 1..Len(timeline), j \in 1..Len(timeline) :
      i < j => timeline[i].time <= timeline[j].time

\* ---------------------------------------------------------------------- C8
\* C8 (errors), as claimed: an authenticated request for an integer id that
\* names no channel is answered 404 "Channel not found", one for a
\* non-integer id 400, and neither produces a timeline or a daily map.
C8_Errors ==
  (pc = "done" /\ req.user_id # None) =>
    /\ (ParseInt(req.channel_id) # None /\ ParseInt(req.channel_id) \notin DOMAIN channels)
         => /\ resp = [status |-> 404, error |-> "Channel not found"]
            /\ timeline = <<>> /\ daily_stats = <<>>
    /\ ParseInt(req.channel_id) = None
         => /\ resp.status = 400
            /\ timeline = <<>> /\ daily_stats = <<>>

\* ---------------------------------------------------------------------- C9
BucketState(stats, at, k, day) ==
  IF "uptime" \in DOMAIN stats[day] THEN "CLOSED"
  ELSE IF at = "walk_events" /\ daily_keys[k] = day THEN "ACCUMULATING"
  ELSE "UNINITIALIZED"

Accumulating == {day \in Emitted : BucketState(daily_stats, pc, di, day) = "ACCUMULATING"}

LifecycleStep ==
  /\ \A day \in Emitted \cap DOMAIN daily_stats' :
       LET before == BucketState(daily_stats, pc, di, day)
           after == BucketState(daily_stats', pc', di', day)
       IN  /\ \/ after = before
              \/ before = "UNINITIALIZED" /\ after = "ACCUMULATING"
              \/ before = "ACCUMULATING" /\ after = "CLOSED"
           /\ before = "CLOSED" => daily_stats'[day] = daily_stats[day]
  /\ Cardinality(Accumulating) <= 1
  /\ (pc = "walk_events" /\ pc' = "walk_events" /\ ei' # ei) =>
       /\ ei' = ei + 1
       /\ uptime' + downtime' = uptime + downtime + (events[ei].time - prev_time)
       /\ IF prev_status = 1 THEN downtime' = downtime ELSE uptime' = uptime
       /\ prev_time' = events[ei].time
       /\ prev_status' = events[ei].status

\* C9 (lifecycle): a day bucket moves only UNINITIALIZED -> ACCUMULATING ->
\* CLOSED; at most one bucket accumulates, with the one cursor; an event adds
\* the time elapsed since the cursor to the running total and then moves the
\* cursor to the event; a closed bucket's uptime and downtime never change
\* again; and every bucket is eventually closed.
C9_Lifecycle ==
  /\ [][LifecycleStep]_vars
  /\ (Emitted # {}) ~> (\A day \in Emitted : BucketState(daily_stats, pc, di, day) = "CLOSED")

\* a bucket is closed while a later one has taken an event into its total
C9_Witness ==
  /\ pc = "walk_events"
  /\ ei > 1
  /\ di > 1
  /\ BucketState(daily_stats, pc, di, daily_keys[1]) = "CLOSED"
  /\ BucketState(daily_stats, pc, di, daily_keys[di]) = "ACCUMULATING"
  /\ uptime + downtime > 0

\* --------------------------------------------------------------------- C10
\* C10 (no negative totals), as claimed: every emitted day has uptime >= 0 and
\* downtime >= 0.
C10_NonNegative ==
  Done200 =>
    \A day \in Emitted : daily_stats[day].uptime >= 0 /\ daily_stats[day].downtime >= 0

====
